---- MODULE Spec2Model ----
(***************************************************************************)
(* Model of middleware/csrf.go: the CSRF middleware (CSRFWithConfig, its   *)
(* token extractors, generateCSRFToken / validateCSRFToken / generateSalt) *)
(* and the JWT middleware (JWTWithConfig, JWTFromHeader, JWTFromQuery).    *)
(*                                                                         *)
(* Strings are sequences of one-character strings, byte slices are         *)
(* sequences of numbers 0..255.  A []byte field of a config is a record     *)
(* [isnil, bytes], so that a nil slice and an empty one stay distinct.     *)
(***************************************************************************)
EXTENDS Integers, Sequences, FiniteSets, TLC

VARIABLES mw, reqs, issued, fn

vars == <<mw, reqs, issued, fn>>

(***************************************************************************)
(* Bounds of the model.                                                    *)
(***************************************************************************)
\* longest secret and longest salt the pure-function specification draws
MaxSecretLen == 2
MaxSaltLen == 2
\* longest arbitrary token string it validates
MaxTokenLen == 4

(***************************************************************************)
(* encoding/hex                                                            *)
(***************************************************************************)
hextable == <<"0","1","2","3","4","5","6","7","8","9","a","b","c","d","e","f">>

HexUpper == <<"A","B","C","D","E","F">>

\* hex.EncodeToString: two lower-case digits per byte, high nibble first
RECURSIVE EncodeToString(_)
EncodeToString(bytes) ==
    IF bytes = <<>> THEN <<>>
    ELSE <<hextable[(Head(bytes) \div 16) + 1], hextable[(Head(bytes) % 16) + 1]>>
            \o EncodeToString(Tail(bytes))

\* hex.fromHexChar: digit value of a character, -1 when it is no hex digit
\* (upper-case digits are accepted)
fromHexChar(c) ==
    IF \E i \in 1..16 : hextable[i] = c
    THEN (CHOOSE i \in 1..16 : hextable[i] = c) - 1
    ELSE IF \E i \in 1..6 : HexUpper[i] = c
         THEN (CHOOSE i \in 1..6 : HexUpper[i] = c) + 9
         ELSE -1

RECURSIVE DecodePairs(_)
DecodePairs(s) ==
    IF Len(s) < 2 THEN <<>>
    ELSE <<fromHexChar(s[1]) * 16 + fromHexChar(s[2])>>
            \o DecodePairs(SubSeq(s, 3, Len(s)))

\* mutant: an odd length is not reported
DecodeString_NoLengthCheck(s) ==
    IF \E i \in 1..Len(s) : fromHexChar(s[i]) < 0
    THEN [err |-> "hex", bytes |-> <<>>]
    ELSE [err |-> "nil", bytes |-> DecodePairs(s)]

\* hex.DecodeString: an error for an odd length or a non-hex character
DecodeString(s) ==
    IF Len(s) % 2 = 1 \/ \E i \in 1..Len(s) : fromHexChar(s[i]) < 0
    THEN [err |-> "hex", bytes |-> <<>>]
    ELSE [err |-> "nil", bytes |-> DecodePairs(s)]

(***************************************************************************)
(* crypto/hmac with sha1.  hmac.New copies the key into a zeroed block of  *)
(* sha1.BlockSize bytes, so keys that differ only in trailing zero bytes   *)
(* are one key; beyond that the keyed hash is idealised as collision-free: *)
(* the digest is an injective encoding of the pair (key block, message).   *)
(* Keys longer than the block (hashed first) are outside the bounds.       *)
(***************************************************************************)
BlockSize == 64

\* the key block without its zero padding
RECURSIVE KeyBlock(_)
KeyBlock(secret) ==
    IF secret # <<>> /\ secret[Len(secret)] = 0
    THEN KeyBlock(SubSeq(secret, 1, Len(secret) - 1))
    ELSE secret

\* mutant: the MAC is computed without the key
hmacSum_Unkeyed(secret, salt) == <<0>> \o salt

hmacSum(secret, salt) == <<Len(KeyBlock(secret))>> \o KeyBlock(secret) \o salt

(***************************************************************************)
(* generateCSRFToken, validateCSRFToken                                   *)
(***************************************************************************)
generateCSRFToken(secret, salt) ==
    EncodeToString(hmacSum(secret, salt)) \o <<":">> \o EncodeToString(salt)

\* strings.Index(s, c): 0-based index of the first c, -1 when there is none
Index(s, c) ==
    IF \E i \in 1..Len(s) : s[i] = c
    THEN (CHOOSE i \in 1..Len(s) : s[i] = c /\ \A j \in 1..(i - 1) : s[j] # c) - 1
    ELSE -1

\* mutant: the salt is sliced from the separator on, not from after it
validateCSRFToken_KeepsSep(token, secret) ==
    LET sep == Index(token, ":") IN
    IF sep < 0 THEN [ok |-> FALSE, err |-> "nil"]
    ELSE LET dec == DecodeString(SubSeq(token, sep + 1, Len(token))) IN
         IF dec.err # "nil" THEN [ok |-> FALSE, err |-> dec.err]
         ELSE [ok |-> token = generateCSRFToken(secret, dec.bytes), err |-> "nil"]

\* mutant: only the MAC part of the token is compared, not the whole string
validateCSRFToken_MacOnly(token, secret) ==
    LET sep == Index(token, ":") IN
    IF sep < 0 THEN [ok |-> FALSE, err |-> "nil"]
    ELSE LET dec == DecodeString(SubSeq(token, sep + 2, Len(token))) IN
         IF dec.err # "nil" THEN [ok |-> FALSE, err |-> dec.err]
         ELSE [ok |-> SubSeq(token, 1, sep) = EncodeToString(hmacSum(secret, dec.bytes)),
               err |-> "nil"]

validateCSRFToken(token, secret) ==
    LET sep == Index(token, ":") IN
    IF sep < 0 THEN [ok |-> FALSE, err |-> "nil"]
    ELSE LET dec == DecodeString(SubSeq(token, sep + 2, Len(token))) IN
         IF dec.err # "nil" THEN [ok |-> FALSE, err |-> dec.err]
         ELSE [ok |-> token = generateCSRFToken(secret, dec.bytes), err |-> "nil"]

\* generateSalt(len): len bytes read from crypto/rand; rnd is what the random
\* source does on this call (its error, and the byte stream it delivers)
RandByte(seed, i) == (seed + 37 * i) % 256

generateSalt(len, rnd) ==
    [salt |-> [i \in 1..len |-> IF rnd.err = "nil" THEN RandByte(rnd.seed, i) ELSE 0],
     err  |-> rnd.err]

(***************************************************************************)
(* The request (lessgo.Context): method, header / form / query values by   *)
(* name, and what the handler does to it: context writes (c.Set), cookies  *)
(* (c.SetCookie), the calls made in order (log) and the handler's return.  *)
(* issued is the history of the token values the instance has sent out in  *)
(* cookies.                                                                *)
(***************************************************************************)
HeaderXCSRFToken == "X-CSRF-Token"
HeaderAuthorization == "Authorization"

HeaderNames == {HeaderXCSRFToken, HeaderAuthorization}
ParamNames == {"token"}

HeaderGet(c, name) == IF name \in DOMAIN c.hdr THEN c.hdr[name] ELSE <<>>
FormValue(c, name) == IF name \in DOMAIN c.form THEN c.form[name] ELSE <<>>
QueryParam(c, name) == IF name \in DOMAIN c.query THEN c.query[name] ELSE <<>>

NoReturn == [kind |-> "none", code |-> 0, msg |-> ""]
ReturnNext == [kind |-> "next", code |-> 0, msg |-> ""]
\* a plain Go error (errors.New, or one passed up from a library)
PlainError(msg) == [kind |-> "error", code |-> 0, msg |-> msg]
\* lessgo.NewHTTPError(code, msg)
NewHTTPError(code, msg) == [kind |-> "http", code |-> code, msg |-> msg]

StatusBadRequest == 400
StatusUnauthorized == 401
StatusForbidden == 403

ErrUnauthorized == NewHTTPError(StatusUnauthorized, "Unauthorized")

(***************************************************************************)
(* Token extractors.  An extractor is [kind, name]; kind "nil" is the nil  *)
(* function value of an unset config field.                                *)
(***************************************************************************)
NilExtractor == [kind |-> "nil", name |-> ""]

CSRFTokenFromHeader(header) == [kind |-> "csrf_header", name |-> header]
CSRFTokenFromForm(param) == [kind |-> "csrf_form", name |-> param]
CSRFTokenFromQuery(param) == [kind |-> "csrf_query", name |-> param]
JWTFromQuery(param) == [kind |-> "jwt_query", name |-> param]

bearer == <<"B","e","a","r","e","r">>

JWTFromHeaderValue(auth) ==
    LET l == Len(bearer) IN
    IF Len(auth) > l + 1 /\ SubSeq(auth, 1, l) = bearer
    THEN [tok |-> SubSeq(auth, l + 2, Len(auth)), err |-> "nil"]
    ELSE [tok |-> <<>>, err |-> "empty or invalid jwt in authorization header"]

JWTFromHeader == [kind |-> "jwt_header", name |-> HeaderAuthorization]

\* mutant: the test for the empty string is missing
NonEmptyOr_NoCheck(token, msg) == [tok |-> token, err |-> "nil"]

NonEmptyOr(token, msg) ==
    IF token = <<>> THEN [tok |-> <<>>, err |-> msg] ELSE [tok |-> token, err |-> "nil"]

\* the call config.Extractor(c)
RunExtractor(ex, c) ==
    CASE ex.kind = "csrf_header" -> [tok |-> HeaderGet(c, ex.name), err |-> "nil"]
      [] ex.kind = "csrf_form" ->
            NonEmptyOr(FormValue(c, ex.name), "empty csrf token in form param")
      [] ex.kind = "csrf_query" ->
            NonEmptyOr(QueryParam(c, ex.name), "empty csrf token in query param")
      [] ex.kind = "jwt_header" -> JWTFromHeaderValue(HeaderGet(c, ex.name))
      [] ex.kind = "jwt_query" ->
            NonEmptyOr(QueryParam(c, ex.name), "empty jwt in query param")

(***************************************************************************)
(* The jwt-go collaborator behind jwt.Parse.  A compact token is written   *)
(* as three characters <<alg, claims, signature>>:                         *)
(*   alg        "h" HS256, "H" HS384, "n" none, "u" an unregistered name   *)
(*   claims     "c" claims that validate, "e" an expired token             *)
(*   signature  "1" made with key "k", "2" made with key "k2", "-" empty   *)
(* and every other string is malformed.                                    *)
(***************************************************************************)
AlgorithmHS256 == "HS256"

AlgChars == {"h", "H", "n", "u"}
ClaimChars == {"c", "e"}
SigChars == {"1", "2", "-"}

AlgOf(ch) ==
    CASE ch = "h" -> AlgorithmHS256
      [] ch = "H" -> "HS384"
      [] ch = "n" -> "none"
      [] OTHER -> "XS999"

SigKeyOf(ch) == CASE ch = "1" -> "k" [] ch = "2" -> "k2" [] OTHER -> ""

\* the signing methods jwt-go has registered
RegisteredAlgs == {AlgorithmHS256, "HS384", "none"}

WellFormed(auth) ==
    /\ Len(auth) = 3
    /\ auth[1] \in AlgChars /\ auth[2] \in ClaimChars /\ auth[3] \in SigChars

\* t.Method.Verify(signingString, signature, key) with key a []byte: an HMAC
\* method accepts the signature made with the same key; "none" accepts no
\* []byte key at all
MethodVerify(auth, key) ==
    /\ AlgOf(auth[1]) \in {AlgorithmHS256, "HS384"}
    /\ auth[3] # "-"
    /\ SigKeyOf(auth[3]) = key

\* mutant: the key function hands out the key whatever the algorithm
keyFunc_AnyAlg(config, alg) == [key |-> config.SigningKey, err |-> "nil"]

\* the key function JWTWithConfig passes to jwt.Parse
keyFunc(config, alg) ==
    IF alg # config.SigningMethod
    THEN [key |-> "", err |-> "unexpected jwt signing method"]
    ELSE [key |-> config.SigningKey, err |-> "nil"]

NoToken == [raw |-> <<>>, alg |-> "", Valid |-> FALSE]

\* jwt.Parse(auth, keyFunc): the token, the error, and whether the key
\* function handed its key to the verifier
Parse(auth, config) ==
    IF ~WellFormed(auth)
    THEN [token |-> NoToken, err |-> "malformed", keyed |-> FALSE, asked |-> FALSE]
    ELSE LET alg == AlgOf(auth[1])
             tok == [raw |-> auth, alg |-> alg, Valid |-> FALSE]
         IN
         IF alg \notin RegisteredAlgs
         THEN [token |-> tok, err |-> "unavailable", keyed |-> FALSE, asked |-> FALSE]
         ELSE LET k == keyFunc(config, alg) IN
              IF k.err # "nil"
              THEN [token |-> tok, err |-> "unverifiable", keyed |-> FALSE, asked |-> TRUE]
              ELSE IF auth[2] = "e" \/ ~MethodVerify(auth, k.key)
                   THEN [token |-> tok,
                         err |-> IF auth[2] = "e" THEN "expired" ELSE "signature",
                         keyed |-> TRUE, asked |-> TRUE]
                   ELSE [token |-> [tok EXCEPT !.Valid = TRUE], err |-> "nil",
                         keyed |-> TRUE, asked |-> TRUE]

(***************************************************************************)
(* Configs and construction                                                *)
(***************************************************************************)
\* time.Now().Add(24 * time.Hour) of DefaultCSRFConfig, in hours; 0 is the
\* zero time.Time
DefaultCookieExpires == 24

DefaultCSRFConfig ==
    [Secret |-> [isnil |-> TRUE, bytes |-> <<>>],
     ContextKey |-> "csrf",
     Extractor |-> CSRFTokenFromHeader(HeaderXCSRFToken),
     CookieName |-> "csrf",
     CookieDomain |-> "",
     CookiePath |-> "",
     CookieExpires |-> DefaultCookieExpires,
     CookieSecure |-> FALSE,
     CookieHTTPOnly |-> FALSE]

DefaultJWTConfig ==
    [SigningKey |-> "",
     SigningMethod |-> AlgorithmHS256,
     ContextKey |-> "user",
     Extractor |-> JWTFromHeader]

Unbuilt == [kind |-> "none", state |-> "unbuilt", config |-> <<>>]

\* CSRFWithConfig.Middleware(confObject): panic on a nil secret, else the
\* config with its defaults filled in, captured by the handler
CSRFMiddleware(conf) ==
    IF conf.Secret.isnil
    THEN [kind |-> "csrf", state |-> "panicked", config |-> conf]
    ELSE [kind |-> "csrf", state |-> "serving",
          config |->
            [conf EXCEPT
               !.ContextKey = IF @ = "" THEN DefaultCSRFConfig.ContextKey ELSE @,
               !.Extractor = IF @ = NilExtractor THEN DefaultCSRFConfig.Extractor ELSE @,
               !.CookieName = IF @ = "" THEN DefaultCSRFConfig.CookieName ELSE @,
               !.CookieExpires = IF @ = 0 THEN DefaultCSRFConfig.CookieExpires ELSE @]]

\* JWTWithConfig.Middleware(confObject)
JWTMiddleware(conf) ==
    IF conf.SigningKey = ""
    THEN [kind |-> "jwt", state |-> "panicked", config |-> conf]
    ELSE [kind |-> "jwt", state |-> "serving",
          config |->
            [conf EXCEPT
               !.SigningMethod = IF @ = "" THEN DefaultJWTConfig.SigningMethod ELSE @,
               !.ContextKey = IF @ = "" THEN DefaultJWTConfig.ContextKey ELSE @,
               !.Extractor = IF @ = NilExtractor THEN DefaultJWTConfig.Extractor ELSE @]]

\* the configs a caller may pass
SecretValues ==
    {[isnil |-> TRUE, bytes |-> <<>>], [isnil |-> FALSE, bytes |-> <<>>],
     [isnil |-> FALSE, bytes |-> <<107>>], [isnil |-> FALSE, bytes |-> <<107, 50>>]}

CSRFConfigs ==
    {[Secret |-> s, ContextKey |-> "", Extractor |-> e, CookieName |-> "",
      CookieDomain |-> "", CookiePath |-> "", CookieExpires |-> 0,
      CookieSecure |-> FALSE, CookieHTTPOnly |-> FALSE] :
        s \in SecretValues,
        e \in {NilExtractor, CSRFTokenFromForm("token"), CSRFTokenFromQuery("token")}}
    \cup
    {[Secret |-> s, ContextKey |-> "tok", Extractor |-> e, CookieName |-> "xsrf",
      CookieDomain |-> "example.org", CookiePath |-> "/app", CookieExpires |-> 7,
      CookieSecure |-> TRUE, CookieHTTPOnly |-> TRUE] :
        s \in SecretValues,
        e \in {CSRFTokenFromHeader(HeaderXCSRFToken), CSRFTokenFromQuery("token")}}

JWTConfigs ==
    {[SigningKey |-> k, SigningMethod |-> m, ContextKey |-> "", Extractor |-> NilExtractor] :
        k \in {"", "k", "k2"}, m \in {"", "HS384", "none"}}
    \cup
    {[SigningKey |-> k, SigningMethod |-> m, ContextKey |-> "claims", Extractor |-> e] :
        k \in {"", "k"}, m \in {AlgorithmHS256, "XS999"},
        e \in {JWTFromHeader, JWTFromQuery("token")}}

(***************************************************************************)
(* Requests                                                                *)
(***************************************************************************)
Slots == {1, 2}

\* the slots the sequential specification serves requests in
SeqSlots == {1}

SafeMethods == {"GET", "HEAD", "OPTIONS", "TRACE"}
Methods == SafeMethods \cup {"POST", "DELETE"}

NoExtract == [tok |-> <<>>, err |-> "nil"]
NoParse == [token |-> NoToken, err |-> "nil", keyed |-> FALSE, asked |-> FALSE]

IdleReq ==
    [pc |-> "idle", method |-> "", hdr |-> <<>>, form |-> <<>>, query |-> <<>>,
     rand |-> "nil", salt |-> <<>>, token |-> <<>>, extracted |-> NoExtract,
     valid |-> [ok |-> FALSE, err |-> "nil"], parsed |-> NoParse,
     ctx |-> <<>>, cookies |-> <<>>, log |-> <<>>, ret |-> NoReturn]

NoHeaders == [n \in HeaderNames |-> <<>>]
NoParams == [n \in ParamNames |-> <<>>]

\* a request of the given method that carries value v in one place (v may be
\* empty); the other two places are missing altogether
Carrying(method, place, name, v) ==
    [IdleReq EXCEPT
       !.method = method,
       !.hdr = IF place = "header" THEN [NoHeaders EXCEPT ![name] = v] ELSE <<>>,
       !.form = IF place = "form" THEN [NoParams EXCEPT ![name] = v] ELSE <<>>,
       !.query = IF place = "query" THEN [NoParams EXCEPT ![name] = v] ELSE <<>>]

\* what the random source can do on one call
RandSeeds == {17, 200}
RandOutcomes ==
    {[err |-> "nil", seed |-> sd] : sd \in RandSeeds} \cup {[err |-> "rand", seed |-> 0]}

SaltOf(seed) == generateSalt(8, [err |-> "nil", seed |-> seed]).salt

\* s with its i-th character replaced by ch
ReplaceAt(s, i, ch) == [s EXCEPT ![i] = ch]

ServeSecrets == {sv.bytes : sv \in {x \in SecretValues : ~x.isnil}}

\* the token strings a client presents to the CSRF middleware
IssuedTokens == {generateCSRFToken(s, SaltOf(sd)) : s \in ServeSecrets, sd \in RandSeeds}

PresentedTokens ==
    {<<>>, <<"a", "b">>, <<"0", "0", ":", "z", "z">>, <<"0", "0", ":", "0", "0">>,
     <<"0", "0", ":", "0">>}
    \cup IssuedTokens
    \cup {ReplaceAt(generateCSRFToken(<<107>>, SaltOf(17)), i, "f") : i \in {1, 25}}

CSRFPlaces ==
    {<<"header", HeaderXCSRFToken>>, <<"header", HeaderAuthorization>>,
     <<"form", "token">>, <<"query", "token">>}

CSRFRequests ==
    {Carrying(m, pl[1], pl[2], v) : m \in Methods, pl \in CSRFPlaces, v \in PresentedTokens}

\* the token strings and Authorization headers a client presents to the JWT
\* middleware
WireTokens ==
    {<<a, c, g>> : a \in AlgChars, c \in ClaimChars, g \in SigChars}
    \cup {<<"h">>, <<"h", "c">>, <<"z", "c", "1">>, <<"h", "c", "1", "1">>}

AuthHeaders ==
    {<<>>, bearer, bearer \o <<" ">>, <<"B", "e", "a", "r", " ", "h", "c", "1">>}
    \cup {bearer \o <<sp>> \o w : sp \in {" ", "X"}, w \in WireTokens}
    \cup {bearer \o w : w \in {<<"h", "c", "1">>, <<"h", "c", "1", "1">>}}
    \cup {<<"b", "e", "a", "r", "e", "r", " ">> \o w : w \in {<<"h", "c", "1">>}}

JWTRequests ==
    {Carrying(m, "header", HeaderAuthorization, v) : m \in {"GET", "POST"}, v \in AuthHeaders}
    \cup {Carrying(m, "query", "token", v) : m \in {"GET", "POST"}, v \in WireTokens \cup {<<>>}}

(***************************************************************************)
(* Actions                                                                 *)
(***************************************************************************)
Init ==
    /\ mw = Unbuilt
    /\ reqs = [r \in Slots |-> IdleReq]
    /\ issued = {}
    /\ fn = [op |-> "none"]

\* CSRFWithConfig.Middleware(conf)
ConstructCSRF ==
    /\ mw.state = "unbuilt"
    /\ \E conf \in CSRFConfigs : mw' = CSRFMiddleware(conf)
    /\ UNCHANGED <<reqs, issued, fn>>

\* JWTWithConfig.Middleware(conf)
ConstructJWT ==
    /\ mw.state = "unbuilt"
    /\ \E conf \in JWTConfigs : mw' = JWTMiddleware(conf)
    /\ UNCHANGED <<reqs, issued, fn>>

\* the server hands a request to the handler the middleware returned
Begin(r) ==
    /\ mw.state = "serving"
    /\ reqs[r].pc = "idle"
    /\ \/ /\ mw.kind = "csrf"
          /\ \E c \in CSRFRequests : reqs' = [reqs EXCEPT ![r] = [c EXCEPT !.pc = "issue"]]
       \/ /\ mw.kind = "jwt"
          /\ \E c \in JWTRequests : reqs' = [reqs EXCEPT ![r] = [c EXCEPT !.pc = "jextract"]]
    /\ UNCHANGED <<mw, issued, fn>>

\* mutant: the error of generateSalt is dropped and the zeroed salt is used
CSRFIssue_IgnoresError(r) ==
    LET c == reqs[r]
        config == mw.config
    IN
    /\ c.pc = "issue"
    /\ \E rnd \in RandOutcomes :
         LET g == generateSalt(8, rnd)
             token == generateCSRFToken(config.Secret.bytes, g.salt)
             cookie == [Name |-> config.CookieName, Value |-> token,
                        Expires |-> config.CookieExpires, Secure |-> config.CookieSecure,
                        HttpOnly |-> config.CookieHTTPOnly, Path |-> config.CookiePath,
                        Domain |-> config.CookieDomain]
         IN
         /\ reqs' = [reqs EXCEPT ![r] =
              [c EXCEPT !.pc = "switch", !.rand = g.err, !.salt = g.salt, !.token = token,
                        !.ctx = Append(@, [key |-> config.ContextKey, val |-> token]),
                        !.cookies = Append(@, cookie),
                        !.log = @ \o <<"generateSalt", "Set", "SetCookie">>]]
         /\ issued' = issued \cup {token}
    /\ UNCHANGED <<mw, fn>>

\* csrf.go 101-121: generate the salt and the token, c.Set, c.SetCookie
CSRFIssue(r) ==
    LET c == reqs[r]
        config == mw.config
    IN
    /\ c.pc = "issue"
    /\ \E rnd \in RandOutcomes :
         LET g == generateSalt(8, rnd)
             token == generateCSRFToken(config.Secret.bytes, g.salt)
             cookie == [Name |-> config.CookieName, Value |-> token,
                        Expires |-> config.CookieExpires, Secure |-> config.CookieSecure,
                        HttpOnly |-> config.CookieHTTPOnly, Path |-> config.CookiePath,
                        Domain |-> config.CookieDomain]
         IN
         IF g.err # "nil"
         THEN /\ reqs' = [reqs EXCEPT ![r] =
                   [c EXCEPT !.pc = "done", !.rand = g.err,
                             !.log = Append(@, "generateSalt"),
                             !.ret = PlainError(g.err)]]
              /\ UNCHANGED issued
         ELSE /\ reqs' = [reqs EXCEPT ![r] =
                   [c EXCEPT !.pc = "switch", !.salt = g.salt, !.token = token,
                             !.ctx = Append(@, [key |-> config.ContextKey, val |-> token]),
                             !.cookies = Append(@, cookie),
                             !.log = @ \o <<"generateSalt", "Set", "SetCookie">>]]
              /\ issued' = issued \cup {token}
    /\ UNCHANGED <<mw, fn>>

\* mutant: TRACE is missing from the case list of safe methods
CSRFSwitch_TraceUnsafe(r) ==
    LET c == reqs[r] IN
    /\ c.pc = "switch"
    /\ reqs' = [reqs EXCEPT ![r] =
          [c EXCEPT !.pc = IF c.method \in SafeMethods \ {"TRACE"}
                           THEN "forward" ELSE "extract"]]
    /\ UNCHANGED <<mw, issued, fn>>

\* csrf.go 123-125: the switch on req.Method
CSRFSwitch(r) ==
    LET c == reqs[r] IN
    /\ c.pc = "switch"
    /\ reqs' = [reqs EXCEPT ![r] =
          [c EXCEPT !.pc = IF c.method \in SafeMethods THEN "forward" ELSE "extract"]]
    /\ UNCHANGED <<mw, issued, fn>>

\* csrf.go 126-129
CSRFExtract(r) ==
    LET c == reqs[r]
        x == RunExtractor(mw.config.Extractor, c)
    IN
    /\ c.pc = "extract"
    /\ reqs' = [reqs EXCEPT ![r] =
          [c EXCEPT !.extracted = x, !.log = Append(@, "Extractor"),
                    !.pc = IF x.err # "nil" THEN "done" ELSE "validate",
                    !.ret = IF x.err # "nil" THEN PlainError(x.err) ELSE @]]
    /\ UNCHANGED <<mw, issued, fn>>

\* mutant: the presented token is compared with the token just issued for this
\* request instead of being recomputed from its own salt
CSRFValidate_AgainstFresh(r) ==
    LET c == reqs[r]
        v == validateCSRFToken(c.extracted.tok, mw.config.Secret.bytes)
    IN
    /\ c.pc = "validate"
    /\ reqs' = [reqs EXCEPT ![r] =
          [c EXCEPT !.valid = [v EXCEPT !.ok = (c.extracted.tok = c.token)],
                    !.log = Append(@, "validateCSRFToken"),
                    !.pc = IF v.err = "nil" /\ c.extracted.tok = c.token
                           THEN "forward" ELSE "done",
                    !.ret = IF v.err # "nil" THEN PlainError(v.err)
                            ELSE IF c.extracted.tok # c.token
                                 THEN NewHTTPError(StatusForbidden, "invalid csrf token")
                                 ELSE @]]
    /\ UNCHANGED <<mw, issued, fn>>

\* mutant: the presented token is compared with a token kept in a place all
\* requests share, here the tokens of the requests being handled
CSRFValidate_SharedToken(r) ==
    LET c == reqs[r]
        v == validateCSRFToken(c.extracted.tok, mw.config.Secret.bytes)
        ok == \E q \in Slots : reqs[q].token # <<>> /\ reqs[q].token = c.extracted.tok
    IN
    /\ c.pc = "validate"
    /\ reqs' = [reqs EXCEPT ![r] =
          [c EXCEPT !.valid = [v EXCEPT !.ok = ok],
                    !.log = Append(@, "validateCSRFToken"),
                    !.pc = IF v.err = "nil" /\ ok THEN "forward" ELSE "done",
                    !.ret = IF v.err # "nil" THEN PlainError(v.err)
                            ELSE IF ~ok
                                 THEN NewHTTPError(StatusForbidden, "invalid csrf token")
                                 ELSE @]]
    /\ UNCHANGED <<mw, issued, fn>>

\* mutant: the token that passed validation is stored in the context
CSRFValidate_StoresPresented(r) ==
    LET c == reqs[r]
        v == validateCSRFToken(c.extracted.tok, mw.config.Secret.bytes)
    IN
    /\ c.pc = "validate"
    /\ reqs' = [reqs EXCEPT ![r] =
          [c EXCEPT !.valid = v, !.log = Append(@, "validateCSRFToken"),
                    !.pc = IF v.err = "nil" /\ v.ok THEN "forward" ELSE "done",
                    !.ctx = IF v.err = "nil" /\ v.ok
                            THEN <<[key |-> mw.config.ContextKey, val |-> c.extracted.tok]>>
                            ELSE @,
                    !.ret = IF v.err # "nil" THEN PlainError(v.err)
                            ELSE IF ~v.ok
                                 THEN NewHTTPError(StatusForbidden, "invalid csrf token")
                                 ELSE @]]
    /\ UNCHANGED <<mw, issued, fn>>

\* mutant: the "if !ok" rejection is missing
CSRFValidate_ForwardUnchecked(r) ==
    LET c == reqs[r]
        v == validateCSRFToken(c.extracted.tok, mw.config.Secret.bytes)
    IN
    /\ c.pc = "validate"
    /\ reqs' = [reqs EXCEPT ![r] =
          [c EXCEPT !.valid = v, !.log = Append(@, "validateCSRFToken"),
                    !.pc = IF v.err = "nil" THEN "forward" ELSE "done",
                    !.ret = IF v.err # "nil" THEN PlainError(v.err) ELSE @]]
    /\ UNCHANGED <<mw, issued, fn>>

\* csrf.go 130-136
CSRFValidate(r) ==
    LET c == reqs[r]
        v == validateCSRFToken(c.extracted.tok, mw.config.Secret.bytes)
    IN
    /\ c.pc = "validate"
    /\ reqs' = [reqs EXCEPT ![r] =
          [c EXCEPT !.valid = v, !.log = Append(@, "validateCSRFToken"),
                    !.pc = IF v.err = "nil" /\ v.ok THEN "forward" ELSE "done",
                    !.ret = IF v.err # "nil" THEN PlainError(v.err)
                            ELSE IF ~v.ok
                                 THEN NewHTTPError(StatusForbidden, "invalid csrf token")
                                 ELSE @]]
    /\ UNCHANGED <<mw, issued, fn>>

\* mutant: an extractor error is answered with the unauthorized error
JWTExtract_Unauthorized(r) ==
    LET c == reqs[r]
        x == RunExtractor(mw.config.Extractor, c)
    IN
    /\ c.pc = "jextract"
    /\ reqs' = [reqs EXCEPT ![r] =
          [c EXCEPT !.extracted = x, !.log = Append(@, "Extractor"),
                    !.pc = IF x.err # "nil" THEN "done" ELSE "jparse",
                    !.ret = IF x.err # "nil" THEN ErrUnauthorized ELSE @]]
    /\ UNCHANGED <<mw, issued, fn>>

\* csrf.go 283-286
JWTExtract(r) ==
    LET c == reqs[r]
        x == RunExtractor(mw.config.Extractor, c)
    IN
    /\ c.pc = "jextract"
    /\ reqs' = [reqs EXCEPT ![r] =
          [c EXCEPT !.extracted = x, !.log = Append(@, "Extractor"),
                    !.pc = IF x.err # "nil" THEN "done" ELSE "jparse",
                    !.ret = IF x.err # "nil" THEN NewHTTPError(StatusBadRequest, x.err)
                            ELSE @]]
    /\ UNCHANGED <<mw, issued, fn>>

\* mutant: the verified token is not stored before next is called
JWTParse_NoSet(r) ==
    LET c == reqs[r]
        p == Parse(c.extracted.tok, mw.config)
    IN
    /\ c.pc = "jparse"
    /\ reqs' = [reqs EXCEPT ![r] =
          IF p.err = "nil" /\ p.token.Valid
          THEN [c EXCEPT !.parsed = p, !.pc = "forward", !.log = Append(@, "jwt.Parse")]
          ELSE [c EXCEPT !.parsed = p, !.pc = "done",
                         !.log = Append(@, "jwt.Parse"),
                         !.ret = ErrUnauthorized]]
    /\ UNCHANGED <<mw, issued, fn>>

\* csrf.go 287-300
JWTParse(r) ==
    LET c == reqs[r]
        p == Parse(c.extracted.tok, mw.config)
    IN
    /\ c.pc = "jparse"
    /\ reqs' = [reqs EXCEPT ![r] =
          IF p.err = "nil" /\ p.token.Valid
          THEN [c EXCEPT !.parsed = p, !.pc = "forward",
                         !.log = @ \o <<"jwt.Parse", "Set">>,
                         !.ctx = Append(@, [key |-> mw.config.ContextKey, val |-> p.token])]
          ELSE [c EXCEPT !.parsed = p, !.pc = "done",
                         !.log = Append(@, "jwt.Parse"),
                         !.ret = ErrUnauthorized]]
    /\ UNCHANGED <<mw, issued, fn>>

\* return next(c)
Forward(r) ==
    LET c == reqs[r] IN
    /\ c.pc = "forward"
    /\ reqs' = [reqs EXCEPT ![r] =
          [c EXCEPT !.pc = "done", !.log = Append(@, "next"), !.ret = ReturnNext]]
    /\ UNCHANGED <<mw, issued, fn>>

\* the request is over; the slot takes the next one
Finish(r) ==
    /\ reqs[r].pc = "done"
    /\ reqs' = [reqs EXCEPT ![r] = IdleReq]
    /\ UNCHANGED <<mw, issued, fn>>

Handle(r) ==
    \/ Begin(r)
    \/ CSRFIssue(r)
    \/ CSRFSwitch(r)
    \/ CSRFExtract(r)
    \/ CSRFValidate(r)
    \/ JWTExtract(r)
    \/ JWTParse(r)
    \/ Forward(r)
    \/ Finish(r)

Next ==
    \/ ConstructCSRF
    \/ ConstructJWT
    \/ \E r \in SeqSlots : Handle(r)

Spec == Init /\ [][Next]_vars

(***************************************************************************)
(* Concurrent requests: every slot is a worker of its own, the handler     *)
(* steps of different requests interleave.  Clients resubmit the tokens    *)
(* the instance has issued, or a missing or wrong one.                     *)
(***************************************************************************)
ConcCSRFConfigs ==
    {conf \in CSRFConfigs :
        \/ conf.Secret.bytes = <<107>> /\ conf.Extractor \in {NilExtractor, CSRFTokenFromQuery("token")}
        \/ conf.Secret.bytes = <<107, 50>> /\ conf.Extractor = CSRFTokenFromHeader(HeaderXCSRFToken)}

ConcJWTConfigs ==
    {conf \in JWTConfigs :
        /\ conf.SigningKey = "k"
        /\ conf.SigningMethod \in {"", AlgorithmHS256}
        /\ conf.Extractor \in {NilExtractor, JWTFromQuery("token")}}

ConcCSRFRequests ==
    {Carrying(m, pl[1], pl[2], v) :
        m \in {"GET", "POST"},
        pl \in {<<"header", HeaderXCSRFToken>>, <<"query", "token">>},
        v \in issued \cup {<<>>, <<"0", "0", ":", "z", "z">>, <<"0", "0", ":", "0", "0">>}}

ConcJWTRequests ==
    {Carrying("POST", pl[1], pl[2], v) :
        pl \in {<<"header", HeaderAuthorization>>, <<"query", "token">>},
        v \in {<<>>, <<"h", "c", "1">>, <<"h", "c", "2">>}
              \cup {bearer \o <<" ">> \o w :
                      w \in {<<"h", "c", "1">>, <<"h", "e", "1">>, <<"H", "c", "1">>}}}

ConcConstruct ==
    /\ mw.state = "unbuilt"
    /\ \/ \E conf \in ConcCSRFConfigs : mw' = CSRFMiddleware(conf)
       \/ \E conf \in ConcJWTConfigs : mw' = JWTMiddleware(conf)
    /\ UNCHANGED <<reqs, issued, fn>>

ConcBegin(r) ==
    /\ mw.state = "serving"
    /\ reqs[r].pc = "idle"
    /\ \/ /\ mw.kind = "csrf"
          /\ \E c \in ConcCSRFRequests :
               reqs' = [reqs EXCEPT ![r] = [c EXCEPT !.pc = "issue"]]
       \/ /\ mw.kind = "jwt"
          /\ \E c \in ConcJWTRequests :
               reqs' = [reqs EXCEPT ![r] = [c EXCEPT !.pc = "jextract"]]
    /\ UNCHANGED <<mw, issued, fn>>

ConcHandle(r) ==
    \/ ConcBegin(r)
    \/ CSRFIssue(r)
    \/ CSRFSwitch(r)
    \/ CSRFExtract(r)
    \/ CSRFValidate(r)
    \/ JWTExtract(r)
    \/ JWTParse(r)
    \/ Forward(r)
    \/ Finish(r)

NextConc ==
    \/ ConcConstruct
    \/ \E r \in Slots : ConcHandle(r)

SpecConc == Init /\ [][NextConc]_vars

(***************************************************************************)
(* The token functions on their own: secrets and salts of every length up  *)
(* to the bounds, and every one-character change of an issued token.       *)
(***************************************************************************)
SecretBytes == {0, 107}
SaltBytes == {0, 171, 255}

SeqsUpTo(S, n) == UNION {[1..k -> S] : k \in 0..n}

FnSecrets == SeqsUpTo(SecretBytes, MaxSecretLen)
FnSalts == SeqsUpTo(SaltBytes, MaxSaltLen)

TamperChars == {"0", "a", "A", "f", "g", ":"}

FnIdle == [op |-> "none"]

\* generateCSRFToken(S, R), then validateCSRFToken of the result under S
FnRoundTrip ==
    /\ fn.op = "none"
    /\ \E S \in FnSecrets, R \in FnSalts :
         LET token == generateCSRFToken(S, R) IN
         fn' = [op |-> "roundtrip", secret |-> S, salt |-> R, token |-> token,
                res |-> validateCSRFToken(token, S)]
    /\ UNCHANGED <<mw, reqs, issued>>

\* one character of the token just issued is replaced (not the separator),
\* and the result validated under the same secret
FnTamper ==
    /\ fn.op = "roundtrip"
    /\ \E i \in 1..Len(fn.token), ch \in TamperChars :
         /\ i # Index(fn.token, ":") + 1
         /\ ch # fn.token[i]
         /\ LET changed == ReplaceAt(fn.token, i, ch) IN
            fn' = [op |-> "tamper", secret |-> fn.secret, salt |-> fn.salt,
                   token |-> fn.token, pos |-> i,
                   half |-> IF i <= Index(fn.token, ":") THEN "mac" ELSE "salt",
                   changed |-> changed,
                   res |-> validateCSRFToken(changed, fn.secret)]
    /\ UNCHANGED <<mw, reqs, issued>>

\* the token just issued is validated under another secret
FnRebind ==
    /\ fn.op = "roundtrip"
    /\ \E S2 \in FnSecrets :
         /\ S2 # fn.secret
         /\ fn' = [op |-> "rebind", secret |-> fn.secret, salt |-> fn.salt,
                   token |-> fn.token, other |-> S2,
                   res |-> validateCSRFToken(fn.token, S2)]
    /\ UNCHANGED <<mw, reqs, issued>>

\* validateCSRFToken of an arbitrary string under a secret
TokenChars == {"0", "a", "A", "g", ":"}
FnTokens == SeqsUpTo(TokenChars, MaxTokenLen)

FnValidate ==
    /\ fn.op = "none"
    /\ \E T \in FnTokens, S \in FnSecrets :
         fn' = [op |-> "validate", secret |-> S, token |-> T,
                res |-> validateCSRFToken(T, S)]
    /\ UNCHANGED <<mw, reqs, issued>>

FnReset ==
    /\ fn.op # "none"
    /\ fn' = FnIdle
    /\ UNCHANGED <<mw, reqs, issued>>

NextFn == FnRoundTrip \/ FnTamper \/ FnRebind \/ FnValidate \/ FnReset

SpecFn == Init /\ [][NextFn]_vars

(***************************************************************************)
(* Properties                                                              *)
(***************************************************************************)

\* C9: for every secret S and salt R, validateCSRFToken(generateCSRFToken(S, R), S)
\* returns (true, nil)
RoundTripValid ==
    fn.op = "roundtrip" => fn.res = [ok |-> TRUE, err |-> "nil"]

RoundTripWitness ==
    /\ fn.op = "roundtrip"
    /\ Len(fn.secret) = MaxSecretLen /\ Len(fn.salt) = MaxSaltLen
    /\ fn.res.ok

\* C10 as stated: a one-byte change in the MAC half or the salt half of a valid
\* token always validates as (false, nil)
TamperInvalidNoError ==
    fn.op = "tamper" => fn.res = [ok |-> FALSE, err |-> "nil"]

\* C10 amended: a one-byte change in either half never validates as true; the
\* result is (false, nil) when the part after the first ':' still decodes as
\* hex, and (false, decode error) when it does not
TamperNeverValid ==
    fn.op = "tamper" =>
        LET rest == SubSeq(fn.changed, Index(fn.changed, ":") + 2, Len(fn.changed))
            hex == Len(rest) % 2 = 0 /\ \A i \in 1..Len(rest) : fromHexChar(rest[i]) >= 0
        IN
        /\ ~fn.res.ok
        /\ hex => fn.res.err = "nil"
        /\ ~hex => fn.res.err # "nil"

TamperWitness ==
    /\ fn.op = "tamper"
    /\ fn.half = "salt"
    /\ fn.res = [ok |-> FALSE, err |-> "nil"]
    /\ DecodeString(SubSeq(fn.changed, Index(fn.changed, ":") + 2, Len(fn.changed))).bytes
         # fn.salt

\* C11 as stated: a token valid under secret S validates as invalid under every
\* secret S' different from S
OtherSecretInvalid ==
    fn.op = "rebind" => fn.res = [ok |-> FALSE, err |-> "nil"]

\* the secret as hmac.New lays it out: padded with zero bytes to the block size
Padded(secret) == secret \o [i \in 1..(BlockSize - Len(secret)) |-> 0]

\* C11 amended: a token valid under secret S validates as invalid, (false, nil),
\* under every secret S' whose zero-padded key block differs from that of S
OtherKeyBlockInvalid ==
    (fn.op = "rebind" /\ Padded(fn.other) # Padded(fn.secret)) =>
        fn.res = [ok |-> FALSE, err |-> "nil"]

OtherKeyBlockWitness ==
    /\ fn.op = "rebind"
    /\ Len(fn.secret) = Len(fn.other) /\ Len(fn.secret) > 0
    /\ Padded(fn.other) # Padded(fn.secret)
    /\ fn.res = [ok |-> FALSE, err |-> "nil"]

HexDigits ==
    {"0", "1", "2", "3", "4", "5", "6", "7", "8", "9",
     "a", "b", "c", "d", "e", "f", "A", "B", "C", "D", "E", "F"}

IsHex(s) == Len(s) % 2 = 0 /\ \A i \in 1..Len(s) : s[i] \in HexDigits

HasColon(s) == \E i \in 1..Len(s) : s[i] = ":"

\* the part of s after its first ':'
AfterColon(s) ==
    LET i == CHOOSE k \in 1..Len(s) : s[k] = ":" /\ \A j \in 1..(k - 1) : s[j] # ":"
    IN SubSeq(s, i + 1, Len(s))

\* C12: validateCSRFToken returns an error exactly when the token has a ':' and
\* the part after the first ':' is not valid hex; a token without ':' gives
\* (false, nil); no token gives true together with an error
ErrorIffNonHexSalt ==
    fn.op \in {"validate", "tamper"} =>
        LET T == IF fn.op = "tamper" THEN fn.changed ELSE fn.token IN
        /\ fn.res.err # "nil" <=> (HasColon(T) /\ ~IsHex(AfterColon(T)))
        /\ ~HasColon(T) => fn.res = [ok |-> FALSE, err |-> "nil"]
        /\ ~(fn.res.ok /\ fn.res.err # "nil")

ErrorIffNonHexSaltWitness ==
    /\ fn.op = "validate"
    /\ Len(fn.token) = MaxTokenLen
    /\ HasColon(fn.token) /\ fn.token[Len(fn.token)] # ":"
    /\ \A i \in 1..Len(AfterColon(fn.token)) : AfterColon(fn.token)[i] \in HexDigits
    /\ fn.res = [ok |-> FALSE, err |-> "hex"]

ValidArbitraryTokenWitness ==
    fn.op = "validate" /\ fn.res = [ok |-> TRUE, err |-> "nil"]

(***************************************************************************)
(* Properties of the handlers                                              *)
(***************************************************************************)
Has(c, call) == \E i \in 1..Len(c.log) : c.log[i] = call
Count(c, call) == Cardinality({i \in 1..Len(c.log) : c.log[i] = call})
Before(c, a, b) ==
    \A j \in 1..Len(c.log) : c.log[j] = b => \E i \in 1..(j - 1) : c.log[i] = a

Serving(kind) == mw.kind = kind /\ mw.state = "serving"
Returned(c) == c.pc = "done"
ReturnedError(c) == c.pc = "done" /\ c.ret.kind \in {"error", "http"}

\* the token the configured extractor finds in the request is there, and is a
\* token issued under the configured secret
PresentsValidToken(c) ==
    LET x == RunExtractor(mw.config.Extractor, c) IN
    /\ x.err = "nil"
    /\ \E i \in 1..Len(x.tok) :
         /\ x.tok[i] = ":"
         /\ LET d == DecodeString(SubSeq(x.tok, i + 1, Len(x.tok))) IN
            d.err = "nil" /\ x.tok = generateCSRFToken(mw.config.Secret.bytes, d.bytes)

\* C1: for a request of a method other than GET, HEAD, OPTIONS, TRACE the CSRF
\* handler calls next only after the extractor returned a token without error
\* and validateCSRFToken then returned (true, nil) for it; in every other case
\* it returns an error without calling next
UnsafeForwardOnlyIfValid ==
    Serving("csrf") =>
      \A r \in Slots :
        LET c == reqs[r] IN
        (c.pc # "idle" /\ c.method \notin SafeMethods) =>
          /\ (Has(c, "next") \/ c.pc = "forward") =>
               /\ PresentsValidToken(c)
               /\ Has(c, "Extractor") /\ Has(c, "validateCSRFToken")
          /\ Before(c, "Extractor", "validateCSRFToken")
          /\ Before(c, "validateCSRFToken", "next")
          /\ (Returned(c) /\ ~PresentsValidToken(c)) =>
               (ReturnedError(c) /\ ~Has(c, "next"))

UnsafeForwardWitness ==
    /\ Serving("csrf")
    /\ \E r \in Slots :
         /\ reqs[r].pc = "done" /\ reqs[r].method = "POST"
         /\ reqs[r].log =
              <<"generateSalt", "Set", "SetCookie", "Extractor", "validateCSRFToken", "next">>

\* C2 as stated: for a request of a method other than GET, HEAD, OPTIONS, TRACE
\* every missing or invalid presented token, whichever the extractor and the
\* cause, ends in the same 403 error
BadTokenAlwaysForbidden ==
    Serving("csrf") =>
      \A r \in Slots :
        LET c == reqs[r] IN
        (Returned(c) /\ c.method \notin SafeMethods /\ Has(c, "Extractor")
           /\ ~PresentsValidToken(c)) =>
          c.ret = NewHTTPError(StatusForbidden, "invalid csrf token")

\* C3 as stated: every GET, HEAD, OPTIONS or TRACE request gets a freshly
\* issued token cookie and is forwarded to next
SafeAlwaysForwarded ==
    Serving("csrf") =>
      \A r \in Slots :
        LET c == reqs[r] IN
        (Returned(c) /\ c.method \in SafeMethods) =>
          /\ Len(c.cookies) = 1
          /\ Has(c, "next")

\* C3 amended: every GET, HEAD, OPTIONS or TRACE request for which salt
\* generation succeeds gets a cookie holding the token made from this request's
\* salt and is forwarded to next; the extractor and validateCSRFToken are never
\* run for a request of these methods
SafeForwardedWithoutCheck ==
    Serving("csrf") =>
      \A r \in Slots :
        LET c == reqs[r] IN
        (c.pc # "idle" /\ c.method \in SafeMethods) =>
          /\ ~Has(c, "Extractor") /\ ~Has(c, "validateCSRFToken")
          /\ c.pc \notin {"extract", "validate"}
          /\ (Returned(c) /\ c.ret.msg # "rand") =>
               /\ Len(c.salt) = 8
               /\ Len(c.cookies) = 1
               /\ c.cookies[1].Value = generateCSRFToken(mw.config.Secret.bytes, c.salt)
               /\ c.cookies[1].Name = mw.config.CookieName
               /\ Count(c, "next") = 1
               /\ c.ret = ReturnNext

SafeForwardedWitness ==
    /\ Serving("csrf")
    /\ \E r \in Slots :
         /\ reqs[r].pc = "done" /\ reqs[r].method = "TRACE"
         /\ mw.config.Extractor.kind = "csrf_form"
         /\ FormValue(reqs[r], "token") = <<"a", "b">>
         /\ reqs[r].ret = ReturnNext

\* the token string the JWT handler passed to jwt.Parse declares an algorithm
Declares(c) == Has(c, "jwt.Parse") /\ WellFormed(c.extracted.tok)
DeclaredAlg(c) == AlgOf(c.extracted.tok[1])

\* C4: a token whose declared algorithm differs from the configured
\* SigningMethod is rejected: the key function does not hand out the signing
\* key, the context is not written, next is not called and the handler returns
\* the unauthorized error
AlgMismatchRejected ==
    Serving("jwt") =>
      \A r \in Slots :
        LET c == reqs[r] IN
        (Declares(c) /\ DeclaredAlg(c) # mw.config.SigningMethod) =>
          /\ ~c.parsed.keyed
          /\ c.ctx = <<>>
          /\ ~Has(c, "next") /\ c.pc = "done"
          /\ c.ret = ErrUnauthorized

\* a rejected token of another HMAC algorithm whose signature was made with the
\* configured key
AlgMismatchWitness ==
    /\ Serving("jwt")
    /\ mw.config.SigningMethod = AlgorithmHS256
    /\ \E r \in Slots :
         /\ Declares(reqs[r]) /\ reqs[r].pc = "done"
         /\ DeclaredAlg(reqs[r]) = "HS384"
         /\ MethodVerify(reqs[r].extracted.tok, mw.config.SigningKey)
         /\ reqs[r].ret = ErrUnauthorized

\* C5: an extractor error ends in a 400 error, every failure of jwt.Parse (or a
\* token that is not Valid) ends in the one 401 error value, and in both cases
\* next is not called
BadRequestVersusUnauthorized ==
    Serving("jwt") =>
      \A r \in Slots :
        LET c == reqs[r]
            x == RunExtractor(mw.config.Extractor, c)
            p == Parse(x.tok, mw.config)
        IN
        Returned(c) =>
          /\ x.err # "nil" =>
               /\ c.ret.kind = "http" /\ c.ret.code = StatusBadRequest
               /\ ~Has(c, "jwt.Parse") /\ ~Has(c, "next")
          /\ (x.err = "nil" /\ ~(p.err = "nil" /\ p.token.Valid)) =>
               /\ c.ret = ErrUnauthorized
               /\ c.ret.code # StatusBadRequest
               /\ ~Has(c, "next")
          /\ c.ret.kind = "http" => (c.ret.code = StatusBadRequest <=> x.err # "nil")

UnauthorizedWitness ==
    /\ Serving("jwt")
    /\ \E r \in Slots :
         /\ Returned(reqs[r]) /\ reqs[r].ret = ErrUnauthorized
         /\ reqs[r].parsed.err = "signature"

ExtractErrorWitness ==
    /\ Serving("jwt")
    /\ \E r \in Slots :
         /\ Returned(reqs[r]) /\ reqs[r].ret.code = StatusBadRequest
         /\ reqs[r].extracted.err # "nil"

\* the token has the configured algorithm and a signature that is correct under
\* the configured key
SignedAsConfigured(c) ==
    /\ Declares(c)
    /\ DeclaredAlg(c) = mw.config.SigningMethod
    /\ MethodVerify(c.extracted.tok, mw.config.SigningKey)

StoredAndForwarded(c) ==
    /\ c.ctx = <<[key |-> mw.config.ContextKey,
                  val |-> [raw |-> c.extracted.tok, alg |-> DeclaredAlg(c), Valid |-> TRUE]]>>
    /\ Count(c, "next") = 1

\* C6 as stated: for a token with the expected algorithm and a correct
\* signature under the configured key the token is stored under ContextKey and
\* next is called exactly once
SignedTokenAlwaysForwarded ==
    Serving("jwt") =>
      \A r \in Slots :
        (Returned(reqs[r]) /\ SignedAsConfigured(reqs[r])) => StoredAndForwarded(reqs[r])

\* C6 amended: for a token with the expected algorithm, a correct signature
\* under the configured key and claims that pass jwt.Parse's validation (not
\* expired) the token is stored under ContextKey and next is called exactly
\* once; the context is written and next is called only when jwt.Parse returned
\* no error and the token is Valid
ValidTokenForwarded ==
    Serving("jwt") =>
      \A r \in Slots :
        LET c == reqs[r] IN
        /\ (Returned(c) /\ SignedAsConfigured(c) /\ c.extracted.tok[2] = "c") =>
             StoredAndForwarded(c)
        /\ (c.ctx # <<>> \/ Has(c, "next") \/ c.pc = "forward") =>
             /\ Has(c, "jwt.Parse")
             /\ c.parsed.err = "nil" /\ c.parsed.token.Valid
             /\ c.parsed = Parse(c.extracted.tok, mw.config)
        /\ Len(c.ctx) <= 1 /\ Count(c, "next") <= 1

ValidTokenWitness ==
    /\ Serving("jwt")
    /\ \E r \in Slots :
         /\ Returned(reqs[r]) /\ SignedAsConfigured(reqs[r])
         /\ StoredAndForwarded(reqs[r])
         /\ reqs[r].ret = ReturnNext

\* C7 as stated: JWTFromHeader returns a token only when the Authorization
\* header is "Bearer", one separator character (a space) and a non-empty rest,
\* which is the token; every other header is an extraction error
BearerShapeRequired ==
    (Serving("jwt") /\ mw.config.Extractor = JWTFromHeader) =>
      \A r \in Slots :
        LET c == reqs[r]
            auth == HeaderGet(c, HeaderAuthorization)
            shaped == /\ Len(auth) > Len(bearer) + 1
                      /\ SubSeq(auth, 1, Len(bearer) + 1) = bearer \o <<" ">>
        IN
        Has(c, "Extractor") =>
          /\ c.extracted.err = "nil" <=> shaped
          /\ shaped => c.extracted.tok = SubSeq(auth, Len(bearer) + 2, Len(auth))

\* C8 as stated: no middleware serves requests with an empty secret or signing
\* key: construction with one never yields a handler
NeverServesEmptySecret ==
    /\ Serving("csrf") => Len(mw.config.Secret.bytes) > 0
    /\ Serving("jwt") => mw.config.SigningKey # ""
    /\ (\E r \in Slots : reqs[r].pc # "idle") => mw.state = "serving"

\* the request carries, in the header the configured header extractor reads, a
\* token this instance has issued
ResubmitsIssued(c) ==
    /\ mw.config.Extractor.kind = "csrf_header"
    /\ c.pc # "idle" /\ c.method \notin SafeMethods
    /\ HeaderGet(c, mw.config.Extractor.name) \in issued

\* C13 as stated: a token the instance issued, resubmitted unchanged in the
\* header of a state-changing request, is always accepted and forwarded
IssuedTokenAlwaysAccepted ==
    Serving("csrf") =>
      \A r \in Slots :
        (Returned(reqs[r]) /\ ResubmitsIssued(reqs[r])) => reqs[r].ret = ReturnNext

\* C13 amended: ... is accepted and forwarded to next (once) whenever salt
\* generation succeeds on the resubmitting request, whatever other requests
\* were handled and whatever other tokens were issued before or meanwhile
IssuedTokenAccepted ==
    Serving("csrf") =>
      \A r \in Slots :
        LET c == reqs[r] IN
        ResubmitsIssued(c) =>
          /\ c.pc = "done" => (c.ret = ReturnNext \/ c.ret = PlainError("rand"))
          /\ (c.pc = "done" /\ c.ret # PlainError("rand")) => Count(c, "next") = 1
          /\ Has(c, "validateCSRFToken") => c.valid = [ok |-> TRUE, err |-> "nil"]

\* an issued token is accepted although the accepting request and a request
\* still in flight were both issued another token
IssuedTokenWitness ==
    /\ Serving("csrf")
    /\ ResubmitsIssued(reqs[1]) /\ reqs[1].ret = ReturnNext
    /\ reqs[2].pc \in {"switch", "extract", "validate"}
    /\ reqs[1].token # HeaderGet(reqs[1], mw.config.Extractor.name)
    /\ reqs[2].token # HeaderGet(reqs[1], mw.config.Extractor.name)
    /\ Cardinality(issued) >= 2

\* the value a request has under a name in one of its maps: empty when missing
ValueIn(map, name) == IF name \in DOMAIN map THEN map[name] ELSE <<>>

ExtractedAsSpecified(c) ==
    LET ex == mw.config.Extractor IN
    /\ ex.kind = "csrf_header" =>
         c.extracted = [tok |-> ValueIn(c.hdr, ex.name), err |-> "nil"]
    /\ ex.kind = "csrf_form" =>
         /\ c.extracted.err # "nil" <=> ValueIn(c.form, ex.name) = <<>>
         /\ c.extracted.err = "nil" => c.extracted.tok = c.form[ex.name]
    /\ ex.kind \in {"csrf_query", "jwt_query"} =>
         /\ c.extracted.err # "nil" <=> ValueIn(c.query, ex.name) = <<>>
         /\ c.extracted.err = "nil" => c.extracted.tok = c.query[ex.name]

\* the step in which the handler of slot r calls its extractor
ExtractorCall(r) ==
    /\ ~Has(reqs[r], "Extractor")
    /\ Has(reqs'[r], "Extractor")

\* C14: the header extractor never fails and returns the header value as it is
\* (empty when the header is absent); the form and query extractors fail exactly
\* when the named parameter is empty or missing and else return its value; the
\* call of an extractor leaves the request and its context as they were
ExtractorsReadOnly ==
    /\ [](mw.state = "serving" =>
             \A r \in Slots : Has(reqs[r], "Extractor") => ExtractedAsSpecified(reqs[r]))
    /\ [][\A r \in Slots :
             ExtractorCall(r) =>
                /\ reqs'[r].method = reqs[r].method
                /\ reqs'[r].hdr = reqs[r].hdr
                /\ reqs'[r].form = reqs[r].form
                /\ reqs'[r].query = reqs[r].query
                /\ reqs'[r].ctx = reqs[r].ctx
                /\ reqs'[r].cookies = reqs[r].cookies]_vars

\* a query extractor fails on a request that has no such parameter at all, its
\* token being in a header
ExtractorMissingWitness ==
    /\ mw.state = "serving"
    /\ mw.config.Extractor.kind \in {"csrf_query", "jwt_query"}
    /\ \E r \in Slots :
         /\ Has(reqs[r], "Extractor")
         /\ "token" \notin DOMAIN reqs[r].query
         /\ \E h \in DOMAIN reqs[r].hdr : reqs[r].hdr[h] # <<>>
         /\ reqs[r].extracted.err # "nil"

\* the header extractor hands on an empty value without error
ExtractorEmptyHeaderWitness ==
    /\ Serving("csrf")
    /\ mw.config.Extractor.kind = "csrf_header"
    /\ \E r \in Slots :
         /\ Has(reqs[r], "Extractor")
         /\ reqs[r].hdr = <<>>
         /\ reqs[r].extracted = [tok |-> <<>>, err |-> "nil"]

\* salt generation has succeeded for the request
SaltGenerated(c) == Has(c, "generateSalt") /\ c.ret # PlainError("rand")

\* C15: for every request of any method for which salt generation succeeds,
\* rejected ones included, the handler stores one token made from this request's
\* salt under ContextKey and sets one cookie with that same token, before the
\* extractor or validateCSRFToken runs; the context never holds the token the
\* client presented in its place
IssuedOnEveryRequest ==
    Serving("csrf") =>
      \A r \in Slots :
        LET c == reqs[r]
            fresh == generateCSRFToken(mw.config.Secret.bytes, c.salt)
        IN
        SaltGenerated(c) =>
          /\ Len(c.salt) = 8
          /\ c.ctx = <<[key |-> mw.config.ContextKey, val |-> fresh]>>
          /\ Len(c.cookies) = 1
          /\ c.cookies[1].Value = fresh /\ c.cookies[1].Name = mw.config.CookieName
          /\ fresh \in issued
          /\ Count(c, "Set") = 1 /\ Count(c, "SetCookie") = 1
          /\ Before(c, "Set", "Extractor") /\ Before(c, "SetCookie", "Extractor")
          /\ Before(c, "SetCookie", "validateCSRFToken")

\* a rejected POST that was issued a token all the same
IssuedOnRejectedWitness ==
    /\ Serving("csrf")
    /\ \E r \in Slots :
         /\ Returned(reqs[r]) /\ reqs[r].method = "POST"
         /\ reqs[r].ret = NewHTTPError(StatusForbidden, "invalid csrf token")
         /\ Len(reqs[r].ctx) = 1 /\ Len(reqs[r].cookies) = 1
         /\ reqs[r].ctx[1].val = reqs[r].cookies[1].Value

\* an accepted POST whose context holds the new token, not the presented one
IssuedNotPresentedWitness ==
    /\ Serving("csrf")
    /\ \E r \in Slots :
         /\ Returned(reqs[r]) /\ reqs[r].method = "POST" /\ reqs[r].ret = ReturnNext
         /\ reqs[r].ctx[1].val # reqs[r].extracted.tok

\* C16: when salt generation fails in a CSRF request the handler returns that
\* error at once: nothing is written to the context, no cookie is set, neither
\* the extractor nor validateCSRFToken runs and next is not called, whatever the
\* method
RandomFailureStops ==
    Serving("csrf") =>
      \A r \in Slots :
        LET c == reqs[r] IN
        c.rand # "nil" =>
          /\ c.pc = "done" /\ c.ret = PlainError(c.rand)
          /\ c.ctx = <<>> /\ c.cookies = <<>>
          /\ c.log = <<"generateSalt">>
          /\ c.token = <<>> /\ c.extracted = NoExtract

\* the failure stops a POST that presents a token the instance has issued
RandomFailureWitness ==
    /\ Serving("csrf")
    /\ \E r \in Slots :
         /\ reqs[r].rand # "nil" /\ reqs[r].method = "POST"
         /\ ResubmitsIssued(reqs[r])

RandomFailureSafeWitness ==
    /\ Serving("csrf")
    /\ \E r \in Slots : reqs[r].rand # "nil" /\ reqs[r].method = "GET"

\* two requests with the same input and the same outcome of the random source
SameInput(c, d) ==
    /\ c.method = d.method
    /\ c.hdr = d.hdr /\ c.form = d.form /\ c.query = d.query
    /\ c.rand = d.rand /\ c.salt = d.salt

SameOutcome(c, d) ==
    /\ c.ret = d.ret
    /\ c.ctx = d.ctx /\ c.cookies = d.cookies
    /\ c.extracted = d.extracted /\ c.valid = d.valid /\ c.parsed = d.parsed
    /\ c.log = d.log

\* C17: once constructed, the resolved config never changes however the
\* requests interleave; a step of one request touches no other request; and the
\* outcome of a request (forwarded or rejected, what it wrote to its context and
\* cookie) is fixed by its own input, its own salt and the config: two requests
\* that agree on these end alike, whatever else was handled before or meanwhile
RequestsIsolated ==
    /\ [](\A r, q \in Slots :
             (Returned(reqs[r]) /\ Returned(reqs[q]) /\ SameInput(reqs[r], reqs[q])) =>
                SameOutcome(reqs[r], reqs[q]))
    /\ [][/\ mw.state = "serving" => mw' = mw
          /\ \A r, q \in Slots :
               r # q => (reqs'[r] = reqs[r] \/ reqs'[q] = reqs[q])]_vars

\* two POSTs with the same input and salt both forwarded, one of them handled
\* when another token had been issued as well
RequestsIsolatedWitness ==
    /\ Serving("csrf")
    /\ Returned(reqs[1]) /\ Returned(reqs[2])
    /\ SameInput(reqs[1], reqs[2])
    /\ reqs[1].method = "POST" /\ reqs[1].ret = ReturnNext
    /\ reqs[1].token # RunExtractor(mw.config.Extractor, reqs[1]).tok
    /\ Cardinality(issued) >= 2

\* two requests with the same JWT in flight at different steps
RequestsIsolatedJWTWitness ==
    /\ Serving("jwt")
    /\ reqs[1].pc = "done" /\ reqs[1].ret = ReturnNext
    /\ reqs[2].pc = "jparse"
    /\ SameInput(reqs[1], reqs[2])

====
